---------------------------- MODULE Spec2Model ----------------------------
(***************************************************************************)
(* Model of the distributed RAM replication reference implementation       *)
(* (distributed-ram-system.rs): the per-VM replication loop, the planned   *)
(* migration and unplanned failover protocols, the parallel transfer       *)
(* engine and its page partitioning; and of the adaptive throttling        *)
(* controller (adaptive-throttling-system.rs): its curve evaluator and its *)
(* emergency pause with both saturation policies.                          *)
(*                                                                         *)
(* Every `.await` of the source is one step of the task that executes it.  *)
(* The collaborators the source only declares (VMHost, BackupNode and the  *)
(* controller's host-facing calls: the block "Stub implementations for     *)
(* compilation") answer with any value of their return type: Ok or Err,    *)
(* and for get_buffer_level any level of Levels.                           *)
(*                                                                         *)
(* Buffer levels and intensities are fixed-point numbers in thousandths:   *)
(* 1.0 is 1000, the convergence level 0.05 is 50.                          *)
(***************************************************************************)
EXTENDS Integers, Sequences, FiniteSets, TLC

\* ---------------------------------------------------------------- bounds

\* Most pages get_dirty_pages hands back in one cycle.
MaxPages == 2
\* Most replication loops spawned in one run (each start_vm_replication spawns one).
MaxLoops == 2
\* Longest page list and largest node count of a direct call of the partitioning.
MaxPartitionPages == 4
MaxNodeCount == 4

\* ------------------------------------------------------------ input sets

VMs == {"vm1", "vm2"}
Nodes == {"A", "B", "C"}
\* The nodes assigned as backups where one replication loop runs, and where
\* several loops run side by side.
ReplicationNodes == {"A", "B"}
SharedNodes == {"A"}
\* Where a VM may execute: the primary host or a backup/target node.
Primary == "primary"
\* Observable replication lags of backup nodes (milliseconds).
Lags == {10, 30, 50}
\* Levels get_buffer_level may report (thousandths of max_buffer_size).
Levels == {49, 50, 51, 800, 1000}
\* Page addresses of the partitioning inputs.
PageAddrs == {1, 2}

Min(a, b) == IF a < b THEN a ELSE b

\* ------------------------------------------------- program constants

\* `> 0.05` of the convergence wait, in thousandths.
CONVERGENCE_LEVEL == 50
\* `> 0.8` of the emergency-pause wait, in thousandths.
PAUSE_CLEAR_LEVEL == 800
\* `>= 1.0` of the emergency-pause trigger, in thousandths.
BUFFER_FULL_LEVEL == 1000

\* --------------------------------------------------------------- results

Ok == "Ok"
\* An error a collaborator call returned, propagated unchanged by `?`.
CollaboratorError == "CollaboratorError"
\* DistributedRAMError::BackupNodeError("No backup nodes available").
BackupNodeError == "BackupNodeError"
\* No result yet.
Pending == "Pending"

\* What a collaborator call may answer.
CallResults == {Ok, CollaboratorError}

VARIABLES
    config,             \* DistributedRAMConfig, fixed at construction
    active_vms,         \* vm -> has a VMReplicationState
    backup_nodes,       \* the manager's Vec<BackupNode>, in order
    node_lag,           \* node -> its observable replication lag
    throttling_states,  \* vm -> last recorded intensity, or -1 for none
    vm_host,            \* vm -> what the VM host / nodes have been told
    loops,              \* loop task -> its position in replication_loop
    orphans,            \* transfer tasks whose joiner has returned
    mig,                \* the execute_planned_migration call in progress
    fo,                 \* the handle_unplanned_failover call in progress
    chunk_call,         \* a direct call of chunk_pages_for_distribution
    epv,                \* the AdaptiveThrottlingController::emergency_pause_vm call in progress
    intensity_call,     \* a direct call of calculate_throttling_intensity
    new_call            \* a call of DistributedRAMManager::new on a given config

vars == <<config, active_vms, backup_nodes, node_lag, throttling_states,
          vm_host, loops, orphans, mig, fo, chunk_call, epv, intensity_call, new_call>>

\* ------------------------------------------------ page partitioning

\* slice::chunks(size): consecutive slices of `size` elements, the last shorter.
chunks(pages, size) ==
    LET n == (Len(pages) + size - 1) \div size
    IN  [i \in 1..n |-> SubSeq(pages, (i - 1) * size + 1, Min(i * size, Len(pages)))]

chunk_pages_one_per_chunk(pages, node_count) ==
    IF node_count = 0 \/ Len(pages) = 0
    THEN [panicked |-> TRUE, chunks |-> <<>>]
    ELSE [panicked |-> FALSE, chunks |-> chunks(pages, 1)]

\* chunk_pages_for_distribution: chunk_size = (len + node_count - 1) / node_count,
\* then pages.chunks(chunk_size). Division by zero panics; chunks(0) panics.
chunk_pages_for_distribution(pages, node_count) ==
    IF node_count = 0
    THEN [panicked |-> TRUE, chunks |-> <<>>]
    ELSE LET chunk_size == (Len(pages) + node_count - 1) \div node_count
         IN  IF chunk_size = 0
             THEN [panicked |-> TRUE, chunks |-> <<>>]
             ELSE [panicked |-> FALSE, chunks |-> chunks(pages, chunk_size)]


\* ------------------------------------------------------- configuration

Linear == [kind |-> "Linear", exponent |-> 0, control_points |-> <<>>]
Exponential(e) == [kind |-> "Exponential", exponent |-> e, control_points |-> <<>>]
Custom(points) == [kind |-> "Custom", exponent |-> 0, control_points |-> points]

\* The configurations the manager is constructed with: the threshold 0.7 and
\* maximum 0.9 of the reference tests, with either emergency policy.
Configs ==
    { [throttle_threshold |-> 700, max_throttling_intensity |-> 900,
       throttling_curve |-> Linear, emergency_pause_enabled |-> TRUE],
      [throttle_threshold |-> 700, max_throttling_intensity |-> 900,
       throttling_curve |-> Exponential(2), emergency_pause_enabled |-> FALSE] }

RECURSIVE Pow(_, _)
Pow(x, e) == IF e = 0 THEN 1 ELSE x * Pow(x, e - 1)

\* interpolate_custom_curve: the first window of two consecutive control
\* points that brackets the level, linearly interpolated; else max intensity.
RECURSIVE interpolate_from_zero_outside(_, _, _, _)
interpolate_from_zero_outside(cfg, level, control_points, i) ==
    IF i + 1 > Len(control_points)
    THEN 0
    ELSE LET x1 == control_points[i][1]
             y1 == control_points[i][2]
             x2 == control_points[i + 1][1]
             y2 == control_points[i + 1][2]
         IN  IF level >= x1 /\ level <= x2
             THEN IF x2 = x1
                  THEN y1
                  ELSE y1 + ((((level - x1) * 1000) \div (x2 - x1)) * (y2 - y1)) \div 1000
             ELSE interpolate_from_zero_outside(cfg, level, control_points, i + 1)

RECURSIVE interpolate_from(_, _, _, _)
interpolate_from(cfg, level, control_points, i) ==
    IF i + 1 > Len(control_points)
    THEN cfg.max_throttling_intensity
    ELSE LET x1 == control_points[i][1]
             y1 == control_points[i][2]
             x2 == control_points[i + 1][1]
             y2 == control_points[i + 1][2]
         IN  IF level >= x1 /\ level <= x2
             THEN IF x2 = x1
                  THEN y1
                  ELSE y1 + ((((level - x1) * 1000) \div (x2 - x1)) * (y2 - y1)) \div 1000
             ELSE interpolate_from(cfg, level, control_points, i + 1)

interpolate_custom_curve(cfg, level, control_points) ==
    interpolate_from(cfg, level, control_points, 1)

calculate_without_threshold_test(cfg, buffer_level) ==
    LET normalized_level ==
            ((buffer_level - cfg.throttle_threshold) * 1000)
                \div (1000 - cfg.throttle_threshold)
        curve == cfg.throttling_curve
    IN  CASE curve.kind = "Linear" ->
               (cfg.max_throttling_intensity * normalized_level) \div 1000
          [] curve.kind = "Exponential" ->
               (cfg.max_throttling_intensity * Pow(normalized_level, curve.exponent))
                   \div Pow(1000, curve.exponent)
          [] OTHER ->
               interpolate_custom_curve(cfg, normalized_level, curve.control_points)

calculate_unnormalized(cfg, buffer_level) ==
    IF buffer_level <= cfg.throttle_threshold
    THEN 0
    ELSE LET level == buffer_level - cfg.throttle_threshold
             curve == cfg.throttling_curve
         IN  CASE curve.kind = "Linear" ->
                    (cfg.max_throttling_intensity * level) \div 1000
               [] curve.kind = "Exponential" ->
                    (cfg.max_throttling_intensity * Pow(level, curve.exponent))
                        \div Pow(1000, curve.exponent)
               [] OTHER ->
                    interpolate_custom_curve(cfg, level, curve.control_points)

\* calculate_throttling_intensity, in thousandths.
calculate_throttling_intensity(cfg, buffer_level) ==
    IF buffer_level <= cfg.throttle_threshold
    THEN 0
    ELSE LET normalized_level ==
                 ((buffer_level - cfg.throttle_threshold) * 1000)
                     \div (1000 - cfg.throttle_threshold)
             curve == cfg.throttling_curve
         IN  CASE curve.kind = "Linear" ->
                    (cfg.max_throttling_intensity * normalized_level) \div 1000
               [] curve.kind = "Exponential" ->
                    (cfg.max_throttling_intensity * Pow(normalized_level, curve.exponent))
                        \div Pow(1000, curve.exponent)
               [] OTHER ->
                    interpolate_custom_curve(cfg, normalized_level, curve.control_points)

\* ------------------------------------------------------- initial state

None == "none"
NoIntensity == 0 - 1

\* A loop task that has not been spawned / is between calls.
\* tasks: the transfer tasks of the loop's latest batch, in spawn order;
\* joined: how many of them the cycle has awaited.
IdleLoop == [vm |-> None, pc |-> "unspawned", dirty_pages |-> <<>>,
             buffer_level |-> 0, tasks |-> <<>>, joined |-> 0,
             last_result |-> Pending]

\* VMReplicationState::new: buffer_size 0, replication_lag 0.
NoReplicationState == [present |-> FALSE, buffer_size |-> 0, replication_lag |-> 0]
NewReplicationState == [present |-> TRUE, buffer_size |-> 0, replication_lag |-> 0]

IdleMigration == [pc |-> "idle", vm |-> None, target |-> None,
                  last_level |-> NoIntensity, captured |-> FALSE,
                  transferred_to |-> None, resumed_on |-> None,
                  result |-> Pending]

\* calls: the calls made on backup nodes and the controller so far, in order.
IdleFailover == [pc |-> "idle", vm |-> None, failed_node |-> None,
                 best_backup |-> None, remaining_pages |-> <<>>,
                 calls |-> <<>>, result |-> Pending]

NoChunkCall == [called |-> FALSE, pages |-> <<>>, node_count |-> 0,
                result |-> [panicked |-> FALSE, chunks |-> <<>>]]

\* AdaptiveThrottlingController::emergency_pause_vm, not called.
IdleEmergencyPause == [pc |-> "idle", vm |-> None, last_level |-> NoIntensity,
                       result |-> Pending]

NoIntensityCall == [called |-> FALSE,
                    cfg |-> [throttle_threshold |-> 0, max_throttling_intensity |-> 0,
                             throttling_curve |-> Linear, emergency_pause_enabled |-> FALSE],
                    buffer_level |-> 0, result |-> 0]

\* DistributedRAMConfig, the scalar options (sizes as counts, ratios in
\* thousandths).
RAMConfig(size, threshold, max, count) ==
    [max_buffer_size |-> size, throttle_threshold |-> threshold,
     max_throttling_intensity |-> max, backup_node_count |-> count]

NoNewCall == [called |-> FALSE, config |-> RAMConfig(0, 0, 0, 0),
              result |-> Pending, created |-> FALSE]

\* DistributedRAMManager::new: no active VM, no backup node, no loop;
\* AdaptiveThrottlingController::new: no throttling state.
Init ==
    /\ config \in Configs
    /\ active_vms = [v \in VMs |-> NoReplicationState]
    /\ backup_nodes = <<>>
    /\ node_lag = [n \in Nodes |-> 10]
    /\ throttling_states = [v \in VMs |-> NoIntensity]
    /\ vm_host = [v \in VMs |-> [running_on |-> {Primary}, turbo |-> FALSE,
                                  discarded |-> FALSE]]
    /\ loops = [i \in 1..MaxLoops |-> IdleLoop]
    /\ orphans = {}
    /\ mig = IdleMigration
    /\ fo = IdleFailover
    /\ chunk_call = NoChunkCall
    /\ epv = IdleEmergencyPause
    /\ intensity_call = NoIntensityCall
    /\ new_call = NoNewCall

\* ------------------------------------------- VM host and node effects

\* pause_vm_execution / pause_and_capture_final_state: the VM stops on the primary.
host_pause(h, vm) == [h EXCEPT ![vm].running_on = @ \ {Primary}]
\* resume_vm_execution: the VM runs on the primary again.
host_resume(h, vm) == [h EXCEPT ![vm].running_on = @ \cup {Primary}]
\* resume_vm_on_target / BackupNode::resume_vm: the VM runs on that node.
host_resume_on(h, vm, node) == [h EXCEPT ![vm].running_on = @ \cup {node}]
\* initiate_turbo_catchup.
host_turbo(h, vm) == [h EXCEPT ![vm].turbo = TRUE]
\* discard_oldest_pages: the VM's oldest buffered pages are dropped.
host_discard(h, vm) == [h EXCEPT ![vm].discarded = TRUE]

\* AdaptiveReplicationController::get_buffer_level: Ok(level) or Err.
get_buffer_level_answers ==
    {[ok |-> TRUE, level |-> l] : l \in Levels} \cup {[ok |-> FALSE, level |-> 0]}

\* --------------------------------------- execute_planned_migration

\* The call is made: vm_id and target_node are bound.
MigrationStart(vm, target) ==
    /\ mig.pc = "idle"
    /\ mig' = [IdleMigration EXCEPT !.pc = "turbo", !.vm = vm, !.target = target]
    /\ UNCHANGED <<config, active_vms, backup_nodes, node_lag, throttling_states,
                   vm_host, loops, orphans, fo, chunk_call, epv, intensity_call, new_call>>

\* `?` on a failed call: the error is the call's result.
MigrationFails(m, r) == [m EXCEPT !.pc = "done", !.result = r]

\* initiate_turbo_catchup(&vm_id).await?
MigrationTurbo(r) ==
    /\ mig.pc = "turbo"
    /\ IF r = Ok
       THEN /\ vm_host' = host_turbo(vm_host, mig.vm)
            /\ mig' = [mig EXCEPT !.pc = "poll"]
       ELSE /\ mig' = MigrationFails(mig, r)
            /\ UNCHANGED vm_host
    /\ UNCHANGED <<config, active_vms, backup_nodes, node_lag, throttling_states,
                   loops, orphans, fo, chunk_call, epv, intensity_call, new_call>>

still_converging_until_pause_clear(level) == level > PAUSE_CLEAR_LEVEL

\* The loop condition of the convergence wait: get_buffer_level()? > 0.05.
still_converging(level) == level > CONVERGENCE_LEVEL

\* while get_buffer_level(&vm_id).await? > 0.05 { ... }
MigrationPoll(a) ==
    /\ mig.pc = "poll"
    /\ mig' = IF ~a.ok
              THEN MigrationFails(mig, CollaboratorError)
              ELSE [mig EXCEPT !.last_level = a.level,
                               !.pc = IF still_converging(a.level)
                                      THEN "sleep" ELSE "capture"]
    /\ UNCHANGED <<config, active_vms, backup_nodes, node_lag, throttling_states,
                   vm_host, loops, orphans, fo, chunk_call, epv, intensity_call, new_call>>

\* tokio::time::sleep(10 ms).await
MigrationSleep ==
    /\ mig.pc = "sleep"
    /\ mig' = [mig EXCEPT !.pc = "poll"]
    /\ UNCHANGED <<config, active_vms, backup_nodes, node_lag, throttling_states,
                   vm_host, loops, orphans, fo, chunk_call, epv, intensity_call, new_call>>

MigrationCapture_unchecked(r) ==
    /\ mig.pc = "capture"
    /\ IF r = Ok
       THEN /\ vm_host' = host_pause(vm_host, mig.vm)
            /\ mig' = [mig EXCEPT !.pc = "transfer", !.captured = TRUE]
       ELSE /\ mig' = [mig EXCEPT !.pc = "transfer"]
            /\ UNCHANGED vm_host
    /\ UNCHANGED <<config, active_vms, backup_nodes, node_lag, throttling_states,
                   loops, orphans, fo, chunk_call, epv, intensity_call, new_call>>

\* let final_state = pause_and_capture_final_state(&vm_id).await?
MigrationCapture(r) ==
    /\ mig.pc = "capture"
    /\ IF r = Ok
       THEN /\ vm_host' = host_pause(vm_host, mig.vm)
            /\ mig' = [mig EXCEPT !.pc = "transfer", !.captured = TRUE]
       ELSE /\ mig' = MigrationFails(mig, r)
            /\ UNCHANGED vm_host
    /\ UNCHANGED <<config, active_vms, backup_nodes, node_lag, throttling_states,
                   loops, orphans, fo, chunk_call, epv, intensity_call, new_call>>

\* transfer_final_state(final_state, target_node).await?
MigrationTransfer(r) ==
    /\ mig.pc = "transfer"
    /\ mig' = IF r = Ok
              THEN [mig EXCEPT !.pc = "resume", !.transferred_to = mig.target]
              ELSE MigrationFails(mig, r)
    /\ UNCHANGED <<config, active_vms, backup_nodes, node_lag, throttling_states,
                   vm_host, loops, orphans, fo, chunk_call, epv, intensity_call, new_call>>

\* resume_vm_on_target(&vm_id, target_node).await?; Ok(())
MigrationResume(r) ==
    /\ mig.pc = "resume"
    /\ IF r = Ok
       THEN /\ vm_host' = host_resume_on(vm_host, mig.vm, mig.target)
            /\ mig' = [mig EXCEPT !.pc = "done", !.resumed_on = mig.target,
                                  !.result = Ok]
       ELSE /\ mig' = MigrationFails(mig, r)
            /\ UNCHANGED vm_host
    /\ UNCHANGED <<config, active_vms, backup_nodes, node_lag, throttling_states,
                   loops, orphans, fo, chunk_call, epv, intensity_call, new_call>>

\* The caller has the result; a further migration may be requested.
MigrationReturn ==
    /\ mig.pc = "done"
    /\ mig' = IdleMigration
    /\ UNCHANGED <<config, active_vms, backup_nodes, node_lag, throttling_states,
                   vm_host, loops, orphans, fo, chunk_call, epv, intensity_call, new_call>>

\* The steps of a migration in progress.
MigrationSteps ==
    \/ \E r \in CallResults : MigrationTurbo(r)
    \/ \E a \in get_buffer_level_answers : MigrationPoll(a)
    \/ MigrationSleep
    \/ \E r \in CallResults : MigrationCapture(r)
    \/ \E r \in CallResults : MigrationTransfer(r)
    \/ \E r \in CallResults : MigrationResume(r)
    \/ MigrationReturn

NextMigration ==
    \/ \E vm \in VMs, target \in Nodes : MigrationStart(vm, target)
    \/ MigrationSteps

\* Planned migrations alone, on a freshly constructed manager.
SpecMigration == Init /\ [][NextMigration]_vars

\* The same, with the runtime running the task of a call in progress
\* whenever it can take a step.
SpecMigrationFair == SpecMigration /\ WF_vars(MigrationSteps)

\* --------------------------------------- handle_unplanned_failover

\* Pages 1..n in capture order.
PageSeq(n) == [i \in 1..n |-> i]

\* get_buffered_pages: Ok(pages) or Err.
get_buffered_pages_answers ==
    {[ok |-> TRUE, pages |-> PageSeq(n)] : n \in 0..MaxPages}
        \cup {[ok |-> FALSE, pages |-> <<>>]}

select_first_or_default(nodes) ==
    IF nodes = <<>> THEN [ok |-> TRUE, node |-> "A"] ELSE [ok |-> TRUE, node |-> Head(nodes)]

\* select_best_backup_node: _nodes.first().ok_or(BackupNodeError(..)).
select_best_backup_node(nodes) ==
    IF nodes = <<>> THEN [ok |-> FALSE, node |-> None] ELSE [ok |-> TRUE, node |-> Head(nodes)]

\* One entry of the failover's call log.
Call(name, node, pages, r) == [call |-> name, node |-> node, pages |-> pages, result |-> r]

FailoverFails(f, r) == [f EXCEPT !.pc = "done", !.result = r]

\* The call is made: vm_id and failed_node are bound.
FailoverStart(vm, failed_node) ==
    /\ fo.pc = "idle"
    /\ fo' = [IdleFailover EXCEPT !.pc = "select", !.vm = vm, !.failed_node = failed_node]
    /\ UNCHANGED <<config, active_vms, backup_nodes, node_lag, throttling_states,
                   vm_host, loops, orphans, mig, chunk_call, epv, intensity_call, new_call>>

\* let backup_nodes = self.backup_nodes.read().await;
\* let best_backup = self.select_best_backup_node(&backup_nodes, &vm_id).await?;
FailoverSelect ==
    /\ fo.pc = "select"
    /\ LET sel == select_best_backup_node(backup_nodes)
       IN  fo' = IF sel.ok
                 THEN [fo EXCEPT !.pc = "promote", !.best_backup = sel.node]
                 ELSE FailoverFails(fo, BackupNodeError)
    /\ UNCHANGED <<config, active_vms, backup_nodes, node_lag, throttling_states,
                   vm_host, loops, orphans, mig, chunk_call, epv, intensity_call, new_call>>

\* best_backup.promote_to_primary(&vm_id).await?
FailoverPromote(r) ==
    /\ fo.pc = "promote"
    /\ LET f == [fo EXCEPT !.calls = Append(@, Call("promote_to_primary", fo.best_backup, <<>>, r))]
       IN  fo' = IF r = Ok THEN [f EXCEPT !.pc = "get_pages"] ELSE FailoverFails(f, r)
    /\ UNCHANGED <<config, active_vms, backup_nodes, node_lag, throttling_states,
                   vm_host, loops, orphans, mig, chunk_call, epv, intensity_call, new_call>>

\* let remaining_pages = get_buffered_pages(&vm_id).await?
FailoverGetPages(a) ==
    /\ fo.pc = "get_pages"
    /\ LET f == [fo EXCEPT !.calls = Append(@, Call("get_buffered_pages", None, a.pages,
                                                  IF a.ok THEN Ok ELSE CollaboratorError))]
       IN  fo' = IF a.ok
                 THEN [f EXCEPT !.pc = "apply", !.remaining_pages = a.pages]
                 ELSE FailoverFails(f, CollaboratorError)
    /\ UNCHANGED <<config, active_vms, backup_nodes, node_lag, throttling_states,
                   vm_host, loops, orphans, mig, chunk_call, epv, intensity_call, new_call>>

FailoverApply_unchecked(r) ==
    /\ fo.pc = "apply"
    /\ fo' = [fo EXCEPT !.pc = "resume",
                        !.calls = Append(@, Call("apply_remaining_pages", fo.best_backup,
                                                 fo.remaining_pages, r))]
    /\ UNCHANGED <<config, active_vms, backup_nodes, node_lag, throttling_states,
                   vm_host, loops, orphans, mig, chunk_call, epv, intensity_call, new_call>>

\* best_backup.apply_remaining_pages(&vm_id, remaining_pages).await?
FailoverApply(r) ==
    /\ fo.pc = "apply"
    /\ LET f == [fo EXCEPT !.calls = Append(@, Call("apply_remaining_pages", fo.best_backup,
                                                  fo.remaining_pages, r))]
       IN  fo' = IF r = Ok THEN [f EXCEPT !.pc = "resume"] ELSE FailoverFails(f, r)
    /\ UNCHANGED <<config, active_vms, backup_nodes, node_lag, throttling_states,
                   vm_host, loops, orphans, mig, chunk_call, epv, intensity_call, new_call>>

\* best_backup.resume_vm(&vm_id).await?; Ok(())
FailoverResume(r) ==
    /\ fo.pc = "resume"
    /\ fo' = [fo EXCEPT !.pc = "done", !.result = r,
                        !.calls = Append(@, Call("resume_vm", fo.best_backup, <<>>, r))]
    /\ vm_host' = IF r = Ok THEN host_resume_on(vm_host, fo.vm, fo.best_backup) ELSE vm_host
    /\ UNCHANGED <<config, active_vms, backup_nodes, node_lag, throttling_states,
                   loops, orphans, mig, chunk_call, epv, intensity_call, new_call>>

\* The caller has the result (the read guard is dropped).
FailoverReturn ==
    /\ fo.pc = "done"
    /\ fo' = IdleFailover
    /\ UNCHANGED <<config, active_vms, backup_nodes, node_lag, throttling_states,
                   vm_host, loops, orphans, mig, chunk_call, epv, intensity_call, new_call>>

\* A backup node's replication lag, as its transport exposes it, changes
\* while replication runs (no failover is selecting).
LagChanges(n, l) ==
    /\ fo.pc = "idle"
    /\ node_lag[n] # l
    /\ node_lag' = [node_lag EXCEPT ![n] = l]
    /\ UNCHANGED <<config, active_vms, backup_nodes, throttling_states,
                   vm_host, loops, orphans, mig, fo, chunk_call, epv, intensity_call, new_call>>

\* ------------------------------------------------ start_vm_replication

Spawned(i) == loops[i].pc # "unspawned"

\* active_vms.insert(vm_id, VMReplicationState::new(..)); tokio::spawn(replication_loop).
StartVmReplication(vm) ==
    /\ \E i \in 1..MaxLoops :
          /\ ~Spawned(i)
          /\ \A j \in 1..(i - 1) : Spawned(j)
          /\ loops' = [loops EXCEPT ![i] = [IdleLoop EXCEPT !.vm = vm, !.pc = "cycle"]]
    /\ active_vms' = [active_vms EXCEPT ![vm] = NewReplicationState]
    /\ UNCHANGED <<config, backup_nodes, node_lag, throttling_states,
                   vm_host, orphans, mig, fo, chunk_call, epv, intensity_call, new_call>>

\* ------------------------------------- replication_loop / replicate_vm_memory

\* get_dirty_pages: Ok(pages) or Err.
get_dirty_pages_answers ==
    {[ok |-> TRUE, pages |-> PageSeq(n)] : n \in 0..MaxPages}
        \cup {[ok |-> FALSE, pages |-> <<>>]}

\* replicate_vm_memory returns r; replication_loop logs an Err and sleeps.
\* tasks keeps the batch as it was when the call returned.
CycleEnds(l, r) == [l EXCEPT !.pc = "sleep", !.last_result = r,
                             !.dirty_pages = <<>>, !.buffer_level = 0]

\* Transfer tasks still running when the join returns: their JoinHandles
\* are dropped, the tasks run on.
StillRunning(l) ==
    {[vm |-> l.vm, node |-> l.tasks[k].node] :
        k \in {k \in 1..Len(l.tasks) : l.tasks[k].status = "running"}}

AfterThrottling_ignores_flag(cfg, level) ==
    IF level >= BUFFER_FULL_LEVEL THEN "pause" ELSE "dispatch"

\* After the throttling step: the emergency pause when the buffer is full
\* and the pause is enabled, else the transfer.
AfterThrottling(cfg, level) ==
    IF level >= BUFFER_FULL_LEVEL /\ cfg.emergency_pause_enabled
    THEN "pause" ELSE "dispatch"

LoopGetDirtyPages_while_none_paused(i, a) ==
    /\ loops[i].pc = "cycle"
    /\ \A j \in 1..MaxLoops : loops[j].pc # "pause_poll"
    /\ loops' = [loops EXCEPT ![i] =
            IF ~a.ok THEN CycleEnds(@, CollaboratorError)
            ELSE IF a.pages = <<>> THEN CycleEnds(@, Ok)
            ELSE [@ EXCEPT !.pc = "level", !.dirty_pages = a.pages]]
    /\ UNCHANGED <<config, active_vms, backup_nodes, node_lag, throttling_states,
                   vm_host, orphans, mig, fo, chunk_call, epv, intensity_call, new_call>>

\* let dirty_pages = get_dirty_pages(vm_id).await?; if empty return Ok(())
LoopGetDirtyPages(i, a) ==
    /\ loops[i].pc = "cycle"
    /\ loops' = [loops EXCEPT ![i] =
            IF ~a.ok THEN CycleEnds(@, CollaboratorError)
            ELSE IF a.pages = <<>> THEN CycleEnds(@, Ok)
            ELSE [@ EXCEPT !.pc = "level", !.dirty_pages = a.pages]]
    /\ UNCHANGED <<config, active_vms, backup_nodes, node_lag, throttling_states,
                   vm_host, orphans, mig, fo, chunk_call, epv, intensity_call, new_call>>

\* let buffer_level = get_buffer_level(vm_id).await?;
\* if buffer_level > throttle_threshold { apply_adaptive_throttling(..) }
LoopGetBufferLevel(i, a) ==
    /\ loops[i].pc = "level"
    /\ loops' = [loops EXCEPT ![i] =
            IF ~a.ok THEN CycleEnds(@, CollaboratorError)
            ELSE [@ EXCEPT !.buffer_level = a.level,
                           !.pc = IF a.level > config.throttle_threshold
                                  THEN "throttle_cpu"
                                  ELSE AfterThrottling(config, a.level)]]
    /\ UNCHANGED <<config, active_vms, backup_nodes, node_lag, throttling_states,
                   vm_host, orphans, mig, fo, chunk_call, epv, intensity_call, new_call>>

\* apply_adaptive_throttling: throttle_vm_cpu(vm_id, intensity).await?
LoopThrottleCpu(i, r) ==
    /\ loops[i].pc = "throttle_cpu"
    /\ loops' = [loops EXCEPT ![i] =
            IF r = Ok THEN [@ EXCEPT !.pc = "throttle_io"] ELSE CycleEnds(@, r)]
    /\ UNCHANGED <<config, active_vms, backup_nodes, node_lag, throttling_states,
                   vm_host, orphans, mig, fo, chunk_call, epv, intensity_call, new_call>>

LoopThrottleIo_records_on_failure(i, r) ==
    /\ loops[i].pc = "throttle_io"
    /\ throttling_states' =
          [throttling_states EXCEPT ![loops[i].vm] =
              calculate_throttling_intensity(config, loops[i].buffer_level)]
    /\ loops' = IF r = Ok
                THEN [loops EXCEPT ![i].pc = AfterThrottling(config, loops[i].buffer_level)]
                ELSE [loops EXCEPT ![i] = CycleEnds(@, r)]
    /\ UNCHANGED <<config, active_vms, backup_nodes, node_lag,
                   vm_host, orphans, mig, fo, chunk_call, epv, intensity_call, new_call>>

LoopThrottleIo_records_for_all(i, r) ==
    /\ loops[i].pc = "throttle_io"
    /\ IF r = Ok
       THEN /\ throttling_states' =
                  [v \in VMs |->
                      calculate_throttling_intensity(config, loops[i].buffer_level)]
            /\ loops' = [loops EXCEPT ![i].pc =
                             AfterThrottling(config, loops[i].buffer_level)]
       ELSE /\ loops' = [loops EXCEPT ![i] = CycleEnds(@, r)]
            /\ UNCHANGED throttling_states
    /\ UNCHANGED <<config, active_vms, backup_nodes, node_lag,
                   vm_host, orphans, mig, fo, chunk_call, epv, intensity_call, new_call>>

\* apply_adaptive_throttling: throttle_vm_io(vm_id, intensity).await?;
\* throttling_states.insert(vm_id, ThrottlingState { intensity, .. })
LoopThrottleIo(i, r) ==
    /\ loops[i].pc = "throttle_io"
    /\ IF r = Ok
       THEN /\ throttling_states' =
                  [throttling_states EXCEPT ![loops[i].vm] =
                      calculate_throttling_intensity(config, loops[i].buffer_level)]
            /\ loops' = [loops EXCEPT ![i].pc =
                             AfterThrottling(config, loops[i].buffer_level)]
       ELSE /\ loops' = [loops EXCEPT ![i] = CycleEnds(@, r)]
            /\ UNCHANGED throttling_states
    /\ UNCHANGED <<config, active_vms, backup_nodes, node_lag,
                   vm_host, orphans, mig, fo, chunk_call, epv, intensity_call, new_call>>

\* emergency_pause_vm: pause_vm_execution(vm_id).await?
LoopPause(i, r) ==
    /\ loops[i].pc = "pause"
    /\ IF r = Ok
       THEN /\ vm_host' = host_pause(vm_host, loops[i].vm)
            /\ loops' = [loops EXCEPT ![i].pc = "pause_poll"]
       ELSE /\ loops' = [loops EXCEPT ![i] = CycleEnds(@, r)]
            /\ UNCHANGED vm_host
    /\ UNCHANGED <<config, active_vms, backup_nodes, node_lag, throttling_states,
                   orphans, mig, fo, chunk_call, epv, intensity_call, new_call>>

\* The loop condition of the emergency-pause wait: get_buffer_level()? > 0.8.
still_full(level) == level > PAUSE_CLEAR_LEVEL

\* emergency_pause_vm: while get_buffer_level(vm_id).await? > 0.8 { sleep(100 ms) }
LoopPausePoll(i, a) ==
    /\ loops[i].pc = "pause_poll"
    /\ loops' = [loops EXCEPT ![i] =
            IF ~a.ok THEN CycleEnds(@, CollaboratorError)
            ELSE [@ EXCEPT !.buffer_level = a.level,
                           !.pc = IF still_full(a.level)
                                  THEN "pause_poll" ELSE "pause_resume"]]
    /\ UNCHANGED <<config, active_vms, backup_nodes, node_lag, throttling_states,
                   vm_host, orphans, mig, fo, chunk_call, epv, intensity_call, new_call>>

\* emergency_pause_vm: resume_vm_execution(vm_id).await?; the cycle returns Ok(()).
LoopPauseResume(i, r) ==
    /\ loops[i].pc = "pause_resume"
    /\ vm_host' = IF r = Ok THEN host_resume(vm_host, loops[i].vm) ELSE vm_host
    /\ loops' = [loops EXCEPT ![i] = CycleEnds(@, r)]
    /\ UNCHANGED <<config, active_vms, backup_nodes, node_lag, throttling_states,
                   orphans, mig, fo, chunk_call, epv, intensity_call, new_call>>

\* ------------------------------------------ replicate_pages_parallel

\* for (chunk, backup_node) in chunks.into_iter().zip(backup_nodes.iter()):
\* one spawned task per pair, each calling receive_memory_chunk.
spawn_transfer_tasks(chunk_list, nodes) ==
    [k \in 1..Min(Len(chunk_list), Len(nodes)) |->
        [node |-> nodes[k], chunk |-> chunk_list[k], status |-> "running"]]

\* let backup_nodes = self.backup_nodes.read().await; then, in
\* replicate_pages_parallel, the partitioning and the spawning of the tasks
\* (a panic of the partitioning unwinds the loop task). The pages move into
\* the chunks; the level is not read again.
LoopDispatch(i) ==
    /\ loops[i].pc = "dispatch"
    /\ LET part == chunk_pages_for_distribution(loops[i].dirty_pages, Len(backup_nodes))
       IN  loops' = [loops EXCEPT ![i] =
                IF part.panicked
                THEN [@ EXCEPT !.pc = "panicked"]
                ELSE [@ EXCEPT !.pc = "join", !.joined = 0,
                               !.dirty_pages = <<>>, !.buffer_level = 0,
                               !.tasks = spawn_transfer_tasks(part.chunks, backup_nodes)]]
    /\ UNCHANGED <<config, active_vms, backup_nodes, node_lag, throttling_states,
                   vm_host, orphans, mig, fo, chunk_call, epv, intensity_call, new_call>>

\* A spawned transfer task finishes: receive_memory_chunk answers.
TransferCompletes(i, k, r) ==
    /\ loops[i].pc = "join"
    /\ k \in 1..Len(loops[i].tasks)
    /\ loops[i].tasks[k].status = "running"
    /\ loops' = [loops EXCEPT ![i].tasks[k].status = IF r = Ok THEN "ok" ELSE "err"]
    /\ UNCHANGED <<config, active_vms, backup_nodes, node_lag, throttling_states,
                   vm_host, orphans, mig, fo, chunk_call, epv, intensity_call, new_call>>

\* A transfer task that outlived its batch finishes.
OrphanCompletes(o) ==
    /\ o \in orphans
    /\ orphans' = orphans \ {o}
    /\ UNCHANGED <<config, active_vms, backup_nodes, node_lag, throttling_states,
                   vm_host, loops, mig, fo, chunk_call, epv, intensity_call, new_call>>

await_outcome_outer_only(status) == Ok

\* task.await??: the task's own Err (or its JoinError) leaves the join.
await_outcome(status) == IF status = "ok" THEN Ok ELSE CollaboratorError

\* for task in transfer_tasks { task.await??; } Ok(())
LoopJoin(i) ==
    /\ loops[i].pc = "join"
    /\ LET l == loops[i]
           k == l.joined + 1
           returns == \/ k > Len(l.tasks)
                      \/ await_outcome(l.tasks[k].status) # Ok
                      \/ k = Len(l.tasks)
       IN  /\ k <= Len(l.tasks) => l.tasks[k].status # "running"
           /\ loops' = [loops EXCEPT ![i] =
                  IF k > Len(l.tasks) THEN CycleEnds(l, Ok)
                  ELSE IF await_outcome(l.tasks[k].status) # Ok
                       THEN CycleEnds(l, await_outcome(l.tasks[k].status))
                       ELSE IF k = Len(l.tasks)
                            THEN CycleEnds([l EXCEPT !.joined = k], Ok)
                            ELSE [l EXCEPT !.joined = k]]
           /\ orphans' = IF returns THEN orphans \cup StillRunning(l) ELSE orphans
    /\ UNCHANGED <<config, active_vms, backup_nodes, node_lag, throttling_states,
                   vm_host, mig, fo, chunk_call, epv, intensity_call, new_call>>

\* tokio::time::sleep(replication_interval).await, then the next cycle.
LoopSleep(i) ==
    /\ loops[i].pc = "sleep"
    /\ loops' = [loops EXCEPT ![i] = [@ EXCEPT !.pc = "cycle", !.tasks = <<>>, !.joined = 0]]
    /\ UNCHANGED <<config, active_vms, backup_nodes, node_lag, throttling_states,
                   vm_host, orphans, mig, fo, chunk_call, epv, intensity_call, new_call>>

\* ------------------------------------------------- backup-node set

RECURSIVE Range(_)
Range(seq) == IF seq = <<>> THEN {} ELSE {Head(seq)} \cup Range(Tail(seq))

\* Holders of the read guard on backup_nodes: a failover from its selection
\* to its return, a cycle from its dispatch to the end of its join.
ReadGuardHeld ==
    \/ fo.pc \in {"promote", "get_pages", "apply", "resume"}
    \/ \E i \in 1..MaxLoops : loops[i].pc = "join"

\* A backup node is assigned to the manager (under the write lock).
AssignBackupNode(n) ==
    /\ ~ReadGuardHeld
    /\ n \notin Range(backup_nodes)
    /\ backup_nodes' = Append(backup_nodes, n)
    /\ UNCHANGED <<config, active_vms, node_lag, throttling_states,
                   vm_host, loops, orphans, mig, fo, chunk_call, epv, intensity_call, new_call>>

\* ---------------------------------- direct call of the partitioning

RECURSIVE SeqsUpTo(_, _)
SeqsUpTo(S, n) ==
    IF n = 0 THEN {<<>>}
    ELSE LET shorter == SeqsUpTo(S, n - 1)
         IN  shorter \cup {Append(q, x) : q \in shorter, x \in S}

\* chunk_pages_for_distribution(pages, node_count) on the given arguments.
CallChunkPages(pages, node_count) ==
    /\ chunk_call' = [called |-> TRUE, pages |-> pages, node_count |-> node_count,
                      result |-> chunk_pages_for_distribution(pages, node_count)]
    /\ UNCHANGED <<config, active_vms, backup_nodes, node_lag, throttling_states,
                   vm_host, loops, orphans, mig, fo, epv, intensity_call, new_call>>

\* ------------- AdaptiveThrottlingController::emergency_pause_vm
\* (adaptive-throttling-system.rs: the controller with both saturation policies)

\* The call is made; if self.config.emergency_pause_enabled { .. } else { .. }
EmergencyPauseStart(vm) ==
    /\ epv.pc = "idle"
    /\ epv' = [IdleEmergencyPause EXCEPT
                  !.vm = vm,
                  !.pc = IF config.emergency_pause_enabled THEN "pause" ELSE "discard"]
    /\ UNCHANGED <<config, active_vms, backup_nodes, node_lag, throttling_states,
                   vm_host, loops, orphans, mig, fo, chunk_call, intensity_call, new_call>>

EmergencyPauseFails(e, r) == [e EXCEPT !.pc = "done", !.result = r]

\* self.pause_vm_execution(vm_id).await?
EmergencyPausePause(r) ==
    /\ epv.pc = "pause"
    /\ IF r = Ok
       THEN /\ vm_host' = host_pause(vm_host, epv.vm)
            /\ epv' = [epv EXCEPT !.pc = "poll"]
       ELSE /\ epv' = EmergencyPauseFails(epv, r)
            /\ UNCHANGED vm_host
    /\ UNCHANGED <<config, active_vms, backup_nodes, node_lag, throttling_states,
                   loops, orphans, mig, fo, chunk_call, intensity_call, new_call>>

\* while self.get_buffer_level(vm_id).await? > 0.8 { .. }
EmergencyPausePoll(a) ==
    /\ epv.pc = "poll"
    /\ epv' = IF ~a.ok
              THEN EmergencyPauseFails(epv, CollaboratorError)
              ELSE [epv EXCEPT !.last_level = a.level,
                               !.pc = IF still_full(a.level) THEN "sleep" ELSE "resume"]
    /\ UNCHANGED <<config, active_vms, backup_nodes, node_lag, throttling_states,
                   vm_host, loops, orphans, mig, fo, chunk_call, intensity_call, new_call>>

\* tokio::time::sleep(100 ms).await
EmergencyPauseSleep ==
    /\ epv.pc = "sleep"
    /\ epv' = [epv EXCEPT !.pc = "poll"]
    /\ UNCHANGED <<config, active_vms, backup_nodes, node_lag, throttling_states,
                   vm_host, loops, orphans, mig, fo, chunk_call, intensity_call, new_call>>

\* self.resume_vm_execution(vm_id).await?; Ok(())
EmergencyPauseResume(r) ==
    /\ epv.pc = "resume"
    /\ vm_host' = IF r = Ok THEN host_resume(vm_host, epv.vm) ELSE vm_host
    /\ epv' = EmergencyPauseFails(epv, r)
    /\ UNCHANGED <<config, active_vms, backup_nodes, node_lag, throttling_states,
                   loops, orphans, mig, fo, chunk_call, intensity_call, new_call>>

\* self.discard_oldest_pages(vm_id).await?; Ok(())
EmergencyPauseDiscard(r) ==
    /\ epv.pc = "discard"
    /\ vm_host' = IF r = Ok THEN host_discard(vm_host, epv.vm) ELSE vm_host
    /\ epv' = EmergencyPauseFails(epv, r)
    /\ UNCHANGED <<config, active_vms, backup_nodes, node_lag, throttling_states,
                   loops, orphans, mig, fo, chunk_call, intensity_call, new_call>>

\* The caller has the result.
EmergencyPauseReturn ==
    /\ epv.pc = "done"
    /\ epv' = IdleEmergencyPause
    /\ UNCHANGED <<config, active_vms, backup_nodes, node_lag, throttling_states,
                   vm_host, loops, orphans, mig, fo, chunk_call, intensity_call, new_call>>

\* ------------------------------ direct call of the curve evaluator

\* The threshold and maximum of the reference tests.
TEST_THRESHOLD == 700
TEST_MAX_INTENSITY == 900

CurveConfig(threshold, max, curve) ==
    [throttle_threshold |-> threshold, max_throttling_intensity |-> max,
     throttling_curve |-> curve, emergency_pause_enabled |-> TRUE]

\* test_linear_throttling_curve / test_exponential_throttling_curve.
TestLinearConfig == CurveConfig(TEST_THRESHOLD, TEST_MAX_INTENSITY, Linear)
TestExponentialConfig == CurveConfig(TEST_THRESHOLD, TEST_MAX_INTENSITY, Exponential(2))

\* Custom curves (x ascending, x and y in [0,1]): through the maximum, rising
\* above the maximum, and covering only the middle of the normalized range.
CustomCurves ==
    { Custom(<< <<0, 0>>, <<500, 450>>, <<1000, 900>> >>),
      Custom(<< <<0, 0>>, <<500, 600>>, <<1000, 1000>> >>),
      Custom(<< <<200, 100>>, <<800, 700>> >>),
      \* starting above zero at x = 0; a single point; no point
      Custom(<< <<0, 200>>, <<1000, 900>> >>),
      Custom(<< <<500, 400>> >>),
      Custom(<<>>) }

\* The configurations the evaluator is called with.
CurveConfigs ==
    { TestLinearConfig, TestExponentialConfig,
      CurveConfig(TEST_THRESHOLD, TEST_MAX_INTENSITY, Exponential(1)),
      CurveConfig(500, 1000, Linear) }
        \cup {CurveConfig(TEST_THRESHOLD, TEST_MAX_INTENSITY, c) : c \in CustomCurves}

\* The buffer levels it is called with: a grid from 0 past 1.0 (a buffer
\* holding more than max_buffer_size), and the neighbours of the test points.
MaxCurveLevel == 1150
\* The levels of the reference tests: below the threshold, midway, full.
TestLevels == {500, 850, 1000}
\* The level at which the normalized level is x, for the test threshold.
LevelAt(x) == TEST_THRESHOLD + (x * (1000 - TEST_THRESHOLD)) \div 1000
CurveLevels ==
    {l \in 0..MaxCurveLevel : l % 50 = 0}
        \cup TestLevels \cup {699, 701, 849, 851, 999, 1001}
        \cup {LevelAt(200), LevelAt(800)}

\* controller.calculate_throttling_intensity(buffer_level) on a controller
\* constructed with cfg.
CallCalculateIntensity(cfg, buffer_level) ==
    /\ intensity_call' = [called |-> TRUE, cfg |-> cfg, buffer_level |-> buffer_level,
                          result |-> calculate_throttling_intensity(cfg, buffer_level)]
    /\ UNCHANGED <<config, active_vms, backup_nodes, node_lag, throttling_states,
                   vm_host, loops, orphans, mig, fo, chunk_call, epv, new_call>>

\* ------------------------------------- DistributedRAMManager::new

\* The configurations new is called with: inside and outside the documented
\* ranges (threshold in [0,1), maximum in [0,1], positive size and count).
NewConfigs ==
    {RAMConfig(size, threshold, max, count) :
        size \in {0, 1, 1024}, threshold \in {0, 700, 999, 1000, 1100},
        max \in {0, 900, 1000, 1001}, count \in {0, 1, 3}}

\* DistributedRAMManager::new(config): builds the controller, the transfer
\* system and the manager and returns Ok(Self { .. }).
CallNew(cfg) ==
    /\ new_call' = [called |-> TRUE, config |-> cfg, result |-> Ok, created |-> TRUE]
    /\ UNCHANGED <<config, active_vms, backup_nodes, node_lag, throttling_states,
                   vm_host, loops, orphans, mig, fo, chunk_call, epv, intensity_call>>

\* ------------------------------------------------------ specifications

\* The steps of a failover in progress.
FailoverSteps ==
    \/ FailoverSelect
    \/ \E r \in CallResults : FailoverPromote(r)
    \/ \E a \in get_buffered_pages_answers : FailoverGetPages(a)
    \/ \E r \in CallResults : FailoverApply(r)
    \/ \E r \in CallResults : FailoverResume(r)
    \/ FailoverReturn

NextFailover ==
    \/ \E n \in Nodes : AssignBackupNode(n)
    \/ \E n \in Nodes, l \in Lags : LagChanges(n, l)
    \/ \E vm \in VMs, n \in Nodes : FailoverStart(vm, n)
    \/ FailoverSteps

\* Unplanned failovers over every backup set and lag assignment.
SpecFailover == Init /\ [][NextFailover]_vars

\* The steps of loop task i and of its transfer tasks.
LoopStepsOf(i) ==
    \/ \E a \in get_dirty_pages_answers : LoopGetDirtyPages(i, a)
    \/ \E a \in get_buffer_level_answers : LoopGetBufferLevel(i, a)
    \/ \E r \in CallResults : LoopThrottleCpu(i, r)
    \/ \E r \in CallResults : LoopThrottleIo(i, r)
    \/ \E r \in CallResults : LoopPause(i, r)
    \/ \E a \in get_buffer_level_answers : LoopPausePoll(i, a)
    \/ \E r \in CallResults : LoopPauseResume(i, r)
    \/ LoopDispatch(i)
    \/ \E k \in 1..MaxPages, r \in CallResults : TransferCompletes(i, k, r)
    \/ LoopJoin(i)
    \/ LoopSleep(i)

\* The steps of the spawned loops and of their transfer tasks.
LoopSteps == \E i \in 1..MaxLoops : LoopStepsOf(i)

\* With the single backup node of SharedNodes a batch is one task, so no
\* task is left running when its join returns and orphans stays empty.
NextReplication ==
    \/ \E n \in SharedNodes : AssignBackupNode(n)
    \/ \E vm \in VMs : StartVmReplication(vm)
    \/ LoopSteps

\* Up to MaxLoops replication loops started on the manager, for the same VM
\* or for different ones, over every backup set of SharedNodes.
SpecReplication == Init /\ [][NextReplication]_vars

\* start_vm_replication called once.
StartFirstLoop(vm) == ~Spawned(1) /\ StartVmReplication(vm)

NextCycle ==
    \/ \E n \in ReplicationNodes : AssignBackupNode(n)
    \/ \E vm \in VMs : StartFirstLoop(vm)
    \/ LoopSteps
    \/ \E o \in orphans : OrphanCompletes(o)

\* One replication loop, over every backup set of ReplicationNodes.
SpecCycle == Init /\ [][NextCycle]_vars

NextPartition ==
    \E pages \in SeqsUpTo(PageAddrs, MaxPartitionPages), node_count \in 0..MaxNodeCount :
        CallChunkPages(pages, node_count)

\* The partitioning applied to every page list and node count.
SpecPartition == Init /\ [][NextPartition]_vars

\* No operation has been started for the VM, or none that had an effect.
Untouched(vm) ==
    /\ ~active_vms[vm].present
    /\ mig.vm # vm
    /\ fo.vm # vm
    /\ vm_host[vm] = [running_on |-> {Primary}, turbo |-> FALSE, discarded |-> FALSE]

\* Each VM undergoes one operation: replication, a planned migration or an
\* unplanned failover; the operations of different VMs run side by side,
\* with the backup node of SharedNodes.
NextIndependence ==
    \/ \E n \in SharedNodes : AssignBackupNode(n)
    \/ \E vm \in VMs : Untouched(vm) /\ StartVmReplication(vm)
    \/ LoopSteps
    \/ \E vm \in VMs, target \in SharedNodes : Untouched(vm) /\ MigrationStart(vm, target)
    \/ MigrationSteps
    \/ \E vm \in VMs, n \in SharedNodes : Untouched(vm) /\ FailoverStart(vm, n)
    \/ FailoverSteps

SpecIndependence == Init /\ [][NextIndependence]_vars

\* A replicated VM is migrated or failed over while its loop runs: one loop,
\* then planned migrations and unplanned failovers of that VM, one call at a
\* time, with the backup node of SharedNodes.
NextLifecycle ==
    \/ \E n \in SharedNodes : AssignBackupNode(n)
    \/ \E vm \in VMs : StartFirstLoop(vm)
    \/ LoopSteps
    \/ \E vm \in VMs, target \in SharedNodes :
          active_vms[vm].present /\ fo.pc = "idle" /\ MigrationStart(vm, target)
    \/ MigrationSteps
    \/ \E vm \in VMs, n \in SharedNodes :
          active_vms[vm].present /\ mig.pc = "idle" /\ FailoverStart(vm, n)
    \/ FailoverSteps

SpecLifecycle == Init /\ [][NextLifecycle]_vars

\* The public entry points called in any order and at any time, for any VM,
\* replicated or not; the behaviours in which a spawned loop has not yet
\* been scheduled.
NextEntryPoints ==
    \/ \E n \in SharedNodes : AssignBackupNode(n)
    \/ \E vm \in VMs : StartFirstLoop(vm)
    \/ \E vm \in VMs, target \in SharedNodes : MigrationStart(vm, target)
    \/ MigrationSteps
    \/ \E vm \in VMs, n \in SharedNodes : FailoverStart(vm, n)
    \/ FailoverSteps

SpecEntryPoints == Init /\ [][NextEntryPoints]_vars

\* The same, with the runtime scheduling every spawned loop task that can
\* take a step.
SpecLifecycleFair == SpecLifecycle /\ WF_vars(LoopSteps)

NextEmergencyPause ==
    \/ \E vm \in VMs : EmergencyPauseStart(vm)
    \/ \E r \in CallResults : EmergencyPausePause(r)
    \/ \E a \in get_buffer_level_answers : EmergencyPausePoll(a)
    \/ EmergencyPauseSleep
    \/ \E r \in CallResults : EmergencyPauseResume(r)
    \/ \E r \in CallResults : EmergencyPauseDiscard(r)
    \/ EmergencyPauseReturn

\* Calls of AdaptiveThrottlingController::emergency_pause_vm alone.
SpecEmergencyPause == Init /\ [][NextEmergencyPause]_vars

\* Both saturation handlers: one replication loop of the manager, and calls
\* of AdaptiveThrottlingController::emergency_pause_vm.
NextSaturation == NextCycle \/ NextEmergencyPause

SpecSaturation == Init /\ [][NextSaturation]_vars

NextCurve ==
    \E cfg \in CurveConfigs, buffer_level \in CurveLevels :
        CallCalculateIntensity(cfg, buffer_level)

\* The curve evaluator applied to every configuration and buffer level.
SpecCurve == Init /\ [][NextCurve]_vars

NextNew == \E cfg \in NewConfigs : CallNew(cfg)

\* new applied to every configuration.
SpecNew == Init /\ [][NextNew]_vars

Next ==
    \/ NextMigration \/ NextFailover \/ NextReplication \/ NextCycle \/ NextPartition
    \/ NextEmergencyPause \/ NextCurve \/ NextNew

\* Every operation, interleaved.
Spec == Init /\ [][Next]_vars

\* ============================================================ claims

RECURSIVE Flatten(_)
Flatten(seqs) == IF seqs = <<>> THEN <<>> ELSE Head(seqs) \o Flatten(Tail(seqs))

\* ---- planned migration (SpecMigration)

\* pause_and_capture_final_state has succeeded, or a later call of Phase 2
\* is reached.
Phase2Entered ==
    mig.captured \/ mig.pc \in {"transfer", "resume"} \/ mig.resumed_on # None

\* C1: Phase 2 of a planned migration (capture, resume on target) happens
\* only after a buffer-level poll returned a value strictly below 0.05.
C1_Phase2OnlyBelowConvergence ==
    Phase2Entered => (mig.last_level \in Levels /\ mig.last_level < CONVERGENCE_LEVEL)

\* C2: Phase 2 is strictly ordered: the transfer is reached only after a
\* successful capture, the resume only after a successful transfer, both
\* with the call's target node, and a successful migration did all three.
C2_Phase2Ordered ==
    /\ mig.pc = "transfer" => mig.captured
    /\ mig.transferred_to # None => (mig.captured /\ mig.transferred_to = mig.target)
    /\ mig.pc = "resume" => mig.transferred_to = mig.target
    /\ mig.resumed_on # None =>
          (mig.captured /\ mig.transferred_to = mig.target /\ mig.resumed_on = mig.target)
    /\ (mig.pc = "done" /\ mig.result = Ok) =>
          (mig.captured /\ mig.transferred_to = mig.target /\ mig.resumed_on = mig.target)

C2_Witness ==
    mig.pc = "done" /\ mig.result = Ok /\ mig.resumed_on = mig.target

\* C3: a failed migration commits no partial switch: the VM was not resumed
\* on the target and is not left paused on the primary by the capture.
C3_FailedMigrationLeavesVmRunning ==
    (mig.pc = "done" /\ mig.result # Ok) =>
        /\ mig.resumed_on = None
        /\ mig.captured => Primary \in vm_host[mig.vm].running_on

\* ---- unplanned failover (SpecFailover)

\* C4: the node that receives promote_to_primary has the lowest replication
\* lag among the current backup nodes.
C4_PromotesLowestLag ==
    \A k \in 1..Len(fo.calls) :
        fo.calls[k].call = "promote_to_primary" =>
            \A n \in Range(backup_nodes) : node_lag[fo.calls[k].node] <= node_lag[n]

FailoverOrder ==
    <<"promote_to_primary", "get_buffered_pages", "apply_remaining_pages", "resume_vm">>

\* C5: a failover calls promote_to_primary, then (after fetching the buffered
\* pages) apply_remaining_pages with those pages, then resume_vm, all on the
\* one selected node, each call only after every earlier one succeeded.
C5_FailoverOrdered ==
    /\ Len(fo.calls) <= Len(FailoverOrder)
    /\ \A k \in 1..Len(fo.calls) :
          /\ fo.calls[k].call = FailoverOrder[k]
          /\ k < Len(fo.calls) => fo.calls[k].result = Ok
          /\ fo.calls[k].call # "get_buffered_pages" => fo.calls[k].node = fo.best_backup
          /\ fo.calls[k].call = "apply_remaining_pages" =>
                fo.calls[k].pages = fo.calls[k - 1].pages

C5_Witness ==
    /\ fo.pc = "done" /\ fo.result = Ok
    /\ Len(fo.calls) = 4 /\ fo.calls[3].pages # <<>>

\* C6: a failover that fails before resume_vm returns an error at once and
\* issues no resume_vm; with no backup node it returns BackupNodeError and
\* makes no call on any node.
C6_FailedFailoverResumesNothing ==
    /\ (\E k \in 1..Len(fo.calls) :
            fo.calls[k].call # "resume_vm" /\ fo.calls[k].result # Ok) =>
          /\ fo.pc = "done" /\ fo.result # Ok
          /\ \A j \in 1..Len(fo.calls) : fo.calls[j].call # "resume_vm"
    /\ (fo.pc = "done" /\ fo.best_backup = None) =>
          (fo.result = BackupNodeError /\ fo.calls = <<>>)
    /\ (fo.pc \notin {"idle", "select"} /\ backup_nodes = <<>>) =>
          (fo.pc = "done" /\ fo.result = BackupNodeError /\ fo.calls = <<>>)

C6_Witness ==
    /\ fo.pc = "done" /\ fo.result # Ok
    /\ Len(fo.calls) = 3 /\ fo.calls[3].result # Ok

\* ---- replication loop (SpecCycle, SpecReplication)

\* C7: no cycle's failure ends a replication loop: a spawned loop is always
\* in a cycle or sleeping before the next one.
C7_LoopNeverEnds ==
    \A i \in 1..MaxLoops : loops[i].pc # "panicked"

\* Inside replicate_vm_memory, past the fetch of the dirty pages.
InCycle(i) ==
    loops[i].pc \in {"level", "throttle_cpu", "throttle_io", "pause",
                     "pause_poll", "pause_resume", "dispatch", "join"}

\* C8: at most one replication cycle is in progress for a VM at any time.
C8_OneCyclePerVm ==
    \A i, j \in 1..MaxLoops :
        (i # j /\ loops[i].vm = loops[j].vm) => ~(InCycle(i) /\ InCycle(j))

\* ---- page partitioning (SpecPartition)

\* C9: for every page list (the empty one included) and node_count >= 1 the
\* partitioning returns contiguous chunks of size ceil(len/node_count), the
\* last possibly shorter, whose concatenation is the page list.
C9_PartitionCoversPages ==
    (chunk_call.called /\ chunk_call.node_count >= 1) =>
        LET size == (Len(chunk_call.pages) + chunk_call.node_count - 1)
                        \div chunk_call.node_count
            cs == chunk_call.result.chunks
        IN  /\ ~chunk_call.result.panicked
            /\ Flatten(cs) = chunk_call.pages
            /\ \A k \in 1..Len(cs) :
                  /\ Len(cs[k]) <= size
                  /\ k < Len(cs) => Len(cs[k]) = size

\* ---- parallel transfer (SpecCycle)

\* C10: replicate_pages_parallel returns Ok exactly when every task it
\* dispatched succeeded, an error as soon as an awaited task has failed, and
\* dispatches every chunk once.
C10_OkOnlyIfAllTransfersSucceeded ==
    \A i \in 1..MaxLoops :
        LET l == loops[i] IN
        /\ (l.pc = "sleep" /\ l.tasks # <<>>) =>
              (l.last_result = Ok <=> \A k \in 1..Len(l.tasks) : l.tasks[k].status = "ok")
        /\ l.pc = "join" => \A k \in 1..l.joined : l.tasks[k].status = "ok"
        /\ LET sent == Flatten([k \in 1..Len(l.tasks) |-> l.tasks[k].chunk])
           IN  sent = PageSeq(Len(sent))

C10_Witness ==
    \E i \in 1..MaxLoops :
        /\ loops[i].pc = "sleep" /\ loops[i].last_result # Ok
        /\ Len(loops[i].tasks) = 2
        /\ loops[i].tasks[1].status = "err" /\ loops[i].tasks[2].status = "ok"

\* C11: no chunk transfer outlives its replication cycle: outside the join
\* that dispatched it no transfer task is in flight.
C11_NoTransferOutlivesCycle ==
    /\ orphans = {}
    /\ \A i \in 1..MaxLoops :
          loops[i].pc # "join" =>
              \A k \in 1..Len(loops[i].tasks) : loops[i].tasks[k].status # "running"

\* ---- saturation handling (SpecSaturation, SpecCycle)

\* C12: an emergency pause resumes the VM only after a poll taken after the
\* pause returned a level strictly below 0.8.
C12_ResumeOnlyBelowPauseClear ==
    /\ \A i \in 1..MaxLoops :
          loops[i].pc = "pause_resume" => loops[i].buffer_level < PAUSE_CLEAR_LEVEL
    /\ epv.pc = "resume" => (epv.last_level \in Levels /\ epv.last_level < PAUSE_CLEAR_LEVEL)

\* Inside emergency_pause_vm.
PauseStates == {"pause", "pause_poll", "pause_resume"}

\* C13: a cycle enters the emergency pause only with a buffer level >= 1.0
\* and emergency_pause_enabled, and then dispatches no transfer; every other
\* cycle that has dirty pages ends without a dispatch only with an error, and
\* its dispatch hands over exactly the cycle's pages.
C13_PauseOnlyWhenSaturatedAndEnabled ==
    [][\A i \in 1..MaxLoops :
          LET l == loops[i]
              l2 == loops'[i]
          IN  /\ (l.pc # "pause" /\ l2.pc = "pause") =>
                    /\ config.emergency_pause_enabled
                    /\ l2.buffer_level >= BUFFER_FULL_LEVEL
                    /\ l.pc \in {"level", "throttle_io"}
              /\ l.pc \in PauseStates =>
                    /\ l.tasks = <<>>
                    /\ l2.pc \in PauseStates \cup {"sleep"}
                    /\ l2.tasks = <<>>
              /\ (l.pc \in {"level", "throttle_cpu", "throttle_io"} /\ l2.pc = "sleep") =>
                    l2.last_result # Ok
              /\ (l.pc # "dispatch" /\ l2.pc = "dispatch") =>
                    /\ l2.dirty_pages # <<>>
                    /\ ~(config.emergency_pause_enabled
                            /\ l2.buffer_level >= BUFFER_FULL_LEVEL)
              /\ (l.pc = "dispatch" /\ l2.pc = "join") =>
                    /\ l2.tasks # <<>>
                    /\ Flatten([k \in 1..Len(l2.tasks) |-> l2.tasks[k].chunk])
                          = l.dirty_pages
    ]_vars

C13_Witness ==
    \E i \in 1..MaxLoops :
        /\ loops[i].pc = "pause_resume" /\ loops[i].tasks = <<>>
        /\ loops[i].dirty_pages # <<>>

\* C14: with emergency_pause_enabled false, a cycle that observed a buffer
\* level >= 1.0 has dropped the VM's oldest buffered pages (and paused
\* nothing) by the time it goes on to the transfer.
C14_SaturatedWithoutPauseDropsOldest ==
    \A i \in 1..MaxLoops :
        (/\ loops[i].pc = "dispatch"
         /\ loops[i].buffer_level >= BUFFER_FULL_LEVEL
         /\ ~config.emergency_pause_enabled) =>
            /\ vm_host[loops[i].vm].discarded
            /\ Primary \in vm_host[loops[i].vm].running_on

\* ---- independence of the VMs (SpecIndependence)

\* The VM's loop is inside the emergency-pause wait, or its migration is in
\* the convergence wait of Phase 1.
Waiting(vm) ==
    \/ \E i \in 1..MaxLoops : loops[i].vm = vm /\ loops[i].pc = "pause_poll"
    \/ mig.vm = vm /\ mig.pc \in {"poll", "sleep"}

\* C15: while one VM waits (emergency pause or Phase 1 of a migration), the
\* operations of every other VM are not blocked: its replication loop, its
\* failover and its migration can take their next step, and a failover or a
\* migration of it can be started.
C15_WaitBlocksOnlyItsOwnVm ==
    \A a \in VMs :
        Waiting(a) =>
            \A b \in VMs \ {a} :
                /\ \A j \in 1..MaxLoops :
                      (loops[j].vm = b /\ loops[j].pc # "panicked") =>
                          ENABLED LoopStepsOf(j)
                /\ fo.vm = b => ENABLED FailoverSteps
                /\ mig.vm = b => ENABLED MigrationSteps
                /\ fo.pc = "idle" =>
                      \A n \in SharedNodes : ENABLED FailoverStart(b, n)
                /\ mig.pc = "idle" =>
                      \A n \in SharedNodes : ENABLED MigrationStart(b, n)
                /\ (\E j \in 1..MaxLoops : ~Spawned(j)) => ENABLED StartVmReplication(b)

C15_Witness ==
    \E i, j \in 1..MaxLoops :
        /\ loops[i].pc = "pause_poll"
        /\ Spawned(j) /\ loops[j].vm # loops[i].vm
        /\ loops[j].pc = "join"
        /\ loops[j].tasks # <<>> /\ loops[j].tasks[1].status = "ok"

\* ---- adaptive throttling (SpecCycle)

\* C16: a ThrottlingState is recorded only by the step in which the I/O
\* directive succeeds after the CPU directive succeeded, with the intensity
\* computed for the cycle's level; a failed directive ends the cycle with
\* that error, the recorded states unchanged, no transfer dispatched and no
\* pause issued.
C16_ThrottlingStateOnlyAfterBothDirectives ==
    [][/\ throttling_states' # throttling_states =>
             \E j \in 1..MaxLoops :
                 /\ loops[j].pc = "throttle_io"
                 /\ loops'[j].pc \in {"pause", "dispatch"}
                 /\ throttling_states' =
                       [throttling_states EXCEPT ![loops[j].vm] =
                           calculate_throttling_intensity(config, loops[j].buffer_level)]
       /\ \A i \in 1..MaxLoops :
             LET l == loops[i]
                 l2 == loops'[i]
             IN  /\ (l.pc = "throttle_cpu" /\ l2 # l) =>
                       \/ l2.pc = "throttle_io"
                       \/ l2.pc = "sleep" /\ l2.last_result # Ok
                 /\ (l.pc \in {"throttle_cpu", "throttle_io"} /\ l2.pc = "sleep") =>
                       /\ l2.last_result # Ok
                       /\ throttling_states' = throttling_states
                       /\ l2.tasks = <<>>
                       /\ vm_host' = vm_host
    ]_vars

C16_Witness ==
    \E i \in 1..MaxLoops :
        /\ loops[i].pc = "throttle_io"
        /\ throttling_states[loops[i].vm] # NoIntensity
        /\ throttling_states[loops[i].vm]
              # calculate_throttling_intensity(config, loops[i].buffer_level)

\* ---- curve evaluator (SpecCurve)

\* C17: every computed intensity, and every intensity stored in a
\* ThrottlingState, lies in [0, max_throttling_intensity] and in [0, 1].
C17_IntensityWithinMax ==
    /\ intensity_call.called =>
          /\ 0 <= intensity_call.result
          /\ intensity_call.result <= intensity_call.cfg.max_throttling_intensity
          /\ intensity_call.result <= 1000
    /\ \A vm \in VMs :
          throttling_states[vm] # NoIntensity =>
              /\ 0 <= throttling_states[vm]
              /\ throttling_states[vm] <= config.max_throttling_intensity

\* C18: at or below the threshold the intensity is exactly 0 for every curve,
\* and the result is the function's value for the level and the config.
C18_ZeroAtOrBelowThreshold ==
    intensity_call.called =>
        /\ intensity_call.buffer_level <= intensity_call.cfg.throttle_threshold =>
              intensity_call.result = 0
        /\ intensity_call.result =
              calculate_throttling_intensity(intensity_call.cfg, intensity_call.buffer_level)

C18_Witness ==
    /\ intensity_call.called
    /\ intensity_call.cfg.throttling_curve.kind = "Custom"
    /\ intensity_call.buffer_level = intensity_call.cfg.throttle_threshold
    /\ intensity_call.result = 0

\* C19: for the Linear curve above the threshold the intensity is
\* max * (level - threshold) / (1 - threshold), to the last thousandth kept
\* by the two truncating divisions, and max at level 1.0; with threshold 0.7
\* and max 0.9 it is 0.45 at 0.85, 0.9 at 1.0 and 0 at 0.5.
C19_LinearIsAffine ==
    LET cfg == intensity_call.cfg
        level == intensity_call.buffer_level
        result == intensity_call.result
        thr == cfg.throttle_threshold
        max == cfg.max_throttling_intensity
    IN  (intensity_call.called /\ cfg.throttling_curve.kind = "Linear") =>
            /\ level > thr =>
                  /\ result * (1000 - thr) <= max * (level - thr)
                  /\ max * (level - thr) < (result + 2) * (1000 - thr)
            /\ level = 1000 => result = max
            /\ cfg = TestLinearConfig =>
                  /\ level = 850 => result = 450
                  /\ level = 1000 => result = 900
                  /\ level = 500 => result = 0

C19_Witness ==
    /\ intensity_call.called
    /\ intensity_call.cfg = TestLinearConfig
    /\ intensity_call.buffer_level = 850
    /\ intensity_call.result = 450

\* C20: for the Exponential curve with exponent > 0 the intensity is
\* max * t^exponent with t clamped to [0,1]: never above max (levels above
\* 1.0 included), max from level 1.0 on, monotone non-decreasing in the
\* level; with threshold 0.7, max 0.9, exponent 2 it is 0.225 at 0.85.
C20_ExponentialClampedAndMonotone ==
    LET cfg == intensity_call.cfg
        level == intensity_call.buffer_level
        result == intensity_call.result
    IN  (/\ intensity_call.called
         /\ cfg.throttling_curve.kind = "Exponential"
         /\ cfg.throttling_curve.exponent > 0) =>
            /\ result <= cfg.max_throttling_intensity
            /\ level >= 1000 => result = cfg.max_throttling_intensity
            /\ \A lower \in CurveLevels :
                  lower <= level => calculate_throttling_intensity(cfg, lower) <= result
            /\ (cfg = TestExponentialConfig /\ level = 850) => result = 225

\* C21: a Custom curve round-trips at its control points: at the level whose
\* normalized level is x the intensity is y, for every control point (x, y)
\* of a curve of at least two points, a first point at x = 0 included.
C21_CustomRoundTripsAtControlPoints ==
    LET cfg == intensity_call.cfg
        points == cfg.throttling_curve.control_points
    IN  (/\ intensity_call.called
         /\ cfg.throttling_curve.kind = "Custom"
         /\ Len(points) >= 2) =>
            \A k \in 1..Len(points) :
                intensity_call.buffer_level
                        = cfg.throttle_threshold
                            + (points[k][1] * (1000 - cfg.throttle_threshold)) \div 1000
                    => intensity_call.result = points[k][2]

\* C30: for a Custom curve above the threshold, a normalized level t outside
\* every bracket of consecutive control points (fewer than two points
\* included) gives max_throttling_intensity; otherwise the result is the
\* linear interpolation y1 + (t-x1)/(x2-x1)*(y2-y1) in the first bracket
\* that contains t.
C30_CustomOutsideBracketsIsMax ==
    LET cfg == intensity_call.cfg
        points == cfg.throttling_curve.control_points
        t == ((intensity_call.buffer_level - cfg.throttle_threshold) * 1000)
                 \div (1000 - cfg.throttle_threshold)
        brackets == {k \in 1..(Len(points) - 1) :
                        points[k][1] <= t /\ t <= points[k + 1][1]}
    IN  (/\ intensity_call.called
         /\ cfg.throttling_curve.kind = "Custom"
         /\ intensity_call.buffer_level > cfg.throttle_threshold) =>
            IF brackets = {}
            THEN intensity_call.result = cfg.max_throttling_intensity
            ELSE LET k == CHOOSE b \in brackets : \A c \in brackets : b <= c
                     x1 == points[k][1]
                     y1 == points[k][2]
                     x2 == points[k + 1][1]
                     y2 == points[k + 1][2]
                 IN  intensity_call.result
                        = y1 + ((((t - x1) * 1000) \div (x2 - x1)) * (y2 - y1)) \div 1000

C30_Witness ==
    LET cfg == intensity_call.cfg
        points == cfg.throttling_curve.control_points
    IN  /\ intensity_call.called
        /\ cfg.throttling_curve.kind = "Custom"
        /\ Len(points) >= 2
        /\ intensity_call.buffer_level > cfg.throttle_threshold
        /\ intensity_call.buffer_level < LevelAt(points[1][1])
        /\ intensity_call.result = cfg.max_throttling_intensity

\* ---- construction (SpecNew)

\* The documented ranges of the scalar options.
ValidConfig(cfg) ==
    /\ cfg.max_buffer_size > 0
    /\ cfg.throttle_threshold >= 0 /\ cfg.throttle_threshold < 1000
    /\ cfg.max_throttling_intensity >= 0 /\ cfg.max_throttling_intensity <= 1000
    /\ cfg.backup_node_count > 0

\* C22: new rejects a configuration outside the documented ranges: it
\* returns an error and creates no manager.
C22_NewRejectsInvalidConfig ==
    (new_call.called /\ ~ValidConfig(new_call.config)) =>
        (new_call.result # Ok /\ ~new_call.created)

\* ---- buffer level (SpecMigration)

\* C23: get_buffer_level answers from the VM's VMReplicationState: a poll is
\* answered with a level only if the VM has a state (else the unknown-VM
\* error ends the poll), and a state with buffer_size 0 reads as level 0.
C23_BufferLevelFromReplicationState ==
    mig.last_level # NoIntensity =>
        /\ active_vms[mig.vm].present
        /\ active_vms[mig.vm].buffer_size = 0 => mig.last_level = 0

\* ---- lifecycle of a replicated VM (SpecLifecycle, SpecLifecycleFair)

\* A migration or a failover of the VM has completed: the VM was resumed on
\* a target or backup node.
MovedAway(vm) == vm_host[vm].running_on \cap Nodes # {}

\* C24: start_vm_replication creates the VM's state (buffer_size 0, lag 0)
\* together with its loop; once a migration or failover of the VM has
\* completed, its VMReplicationState is gone and its loop starts no cycle.
C24_LifecycleEndsReplication ==
    [][\A vm \in VMs :
          /\ active_vms[vm].present =>
                /\ active_vms[vm].buffer_size = 0 /\ active_vms[vm].replication_lag = 0
                /\ \E i \in 1..MaxLoops : Spawned(i) /\ loops[i].vm = vm
          /\ MovedAway(vm) =>
                /\ ~active_vms[vm].present
                /\ \A i \in 1..MaxLoops :
                      loops[i].vm = vm => ~(loops[i].pc = "cycle" /\ loops'[i] # loops[i])
    ]_vars

\* The loop task has ended (here: by unwinding; the loop has no exit).
LoopEnded(i) == loops[i].pc = "panicked"

\* C25: replication of a VM can be stopped: once its replication is to stop
\* (its migration or failover has completed), its loop eventually terminates.
C25_StopTerminatesLoop ==
    \A vm \in VMs :
        MovedAway(vm) ~> (\A i \in 1..MaxLoops : loops[i].vm = vm => LoopEnded(i))

\* The migration has initiated turbo catchup for the VM and has not ended.
TurboActive(vm) ==
    mig.vm = vm /\ mig.pc \in {"poll", "sleep", "capture", "transfer", "resume"}

\* C26: while turbo catchup is active for a VM, its loop issues no CPU or I/O
\* throttle directive.
C26_TurboSuspendsThrottling ==
    [][\A i \in 1..MaxLoops :
          TurboActive(loops[i].vm) =>
              ~(loops[i].pc \in {"throttle_cpu", "throttle_io"} /\ loops'[i] # loops[i])
    ]_vars

\* Phase 1 of the migration: up to the issue of pause_and_capture_final_state.
InPhase1(m) == m.pc \in {"turbo", "poll", "sleep", "capture"}

\* C27: during Phase 1 of its migration no component pauses the VM, and
\* once resume_vm_on_target has succeeded the VM runs on the target.
C27_UnavailableOnlyInPhase2 ==
    [][\A vm \in VMs :
          /\ (mig.vm = vm /\ InPhase1(mig) /\ mig'.vm = vm /\ InPhase1(mig')) =>
                (Primary \in vm_host[vm].running_on =>
                     Primary \in vm_host'[vm].running_on)
          /\ (mig.vm = vm /\ mig.resumed_on # None) =>
                mig.resumed_on \in vm_host[vm].running_on
    ]_vars

\* The failover holds the backup-node set: from its selection to its return.
Promoting == fo.pc \in {"promote", "get_pages", "apply", "resume"}

\* A transfer batch against the backup-node set is in flight.
BatchInFlight ==
    \/ \E i \in 1..MaxLoops :
          /\ loops[i].pc = "join"
          /\ \E k \in 1..Len(loops[i].tasks) : loops[i].tasks[k].status = "running"
    \/ orphans # {}

\* C28: while a failover is promoting a backup node, no transfer batch
\* against the backup-node set is in flight.
C28_PromotionExcludesTransfers == ~(Promoting /\ BatchInFlight)

\* ---- frame of the operations (SpecIndependence)

\* The step is a step of an operation on vm: of its loop, its migration or
\* its failover.
ActsOn(vm) ==
    \/ \E i \in 1..MaxLoops :
          loops'[i] # loops[i] /\ (loops[i].vm = vm \/ loops'[i].vm = vm)
    \/ mig' # mig /\ (mig.vm = vm \/ mig'.vm = vm)
    \/ fo' # fo /\ (fo.vm = vm \/ fo'.vm = vm)

\* C29: a step of a replication cycle, throttling, emergency pause, migration
\* or failover of one VM leaves every other VM's VMReplicationState,
\* ThrottlingState and host state unchanged, and no such step changes the
\* backup-node set.
C29_OperationsLeaveOtherVmsUnchanged ==
    [][/\ \A b \in VMs :
             ~ActsOn(b) =>
                 /\ active_vms'[b] = active_vms[b]
                 /\ throttling_states'[b] = throttling_states[b]
                 /\ vm_host'[b] = vm_host[b]
       /\ (\E a \in VMs : ActsOn(a)) =>
             /\ backup_nodes' = backup_nodes
             /\ config' = config
    ]_vars

C29_Witness ==
    \E a \in VMs, b \in VMs :
        /\ a # b
        /\ active_vms[a].present /\ active_vms[b].present
        /\ throttling_states[a] > 0
        /\ vm_host[a].running_on = {}
        /\ throttling_states[b] = NoIntensity
        /\ vm_host[b] = [running_on |-> {Primary}, turbo |-> FALSE, discarded |-> FALSE]
        /\ \E j \in 1..MaxLoops : loops[j].vm = b /\ loops[j].pc = "join"

\* ---- convergence wait of the migration (SpecMigrationFair)

\* The migration is in the convergence wait of Phase 1.
InConvergenceWait(m) == m.pc \in {"poll", "sleep"}

\* A call of Phase 2 has failed.
HostCallFailed(m) == ~m.captured \/ m.transferred_to = None \/ m.resumed_on = None

PastThrottling(i) == loops[i].pc \in {"dispatch", "pause"}

\* C32: the recorded ThrottlingState is that of the current cycle: past the
\* throttling decision of a cycle it holds the intensity computed from that
\* cycle's level, which for a level at or below throttle_threshold is 0 (or
\* nothing recorded yet) and not the value of an earlier cycle.
C32_ThrottlingStateIsOfThisCycle ==
    \A i \in 1..MaxLoops :
        PastThrottling(i) =>
            IF loops[i].buffer_level > config.throttle_threshold
            THEN throttling_states[loops[i].vm] =
                     calculate_throttling_intensity(config, loops[i].buffer_level)
            ELSE throttling_states[loops[i].vm] \in {NoIntensity, 0}

\* ---- pairing of chunks and nodes (SpecCycle)

\* C33: the dispatch of a batch spawns exactly one running transfer task per
\* chunk, the k-th chunk to the k-th backup node: the chunks are no more than
\* the nodes, none is dropped by the pairing, none is empty, and the chunks
\* of the tasks are, in order, the pages of the batch, each page once.
C33_OneTaskPerChunkOnDistinctNodes ==
    [][\A i \in 1..MaxLoops :
          (loops[i].pc = "dispatch" /\ loops'[i].pc = "join") =>
              LET part == chunk_pages_for_distribution(loops[i].dirty_pages,
                                                       Len(backup_nodes))
                  tasks == loops'[i].tasks
              IN  /\ Len(part.chunks) <= Len(backup_nodes)
                  /\ Len(tasks) = Len(part.chunks)
                  /\ \A k \in 1..Len(tasks) :
                        /\ tasks[k].node = backup_nodes[k]
                        /\ tasks[k].chunk = part.chunks[k]
                        /\ tasks[k].chunk # <<>>
                        /\ tasks[k].status = "running"
                  /\ \A k, m \in 1..Len(tasks) :
                        k # m => tasks[k].node # tasks[m].node
                  /\ Flatten([k \in 1..Len(tasks) |-> tasks[k].chunk]) =
                         loops[i].dirty_pages
    ]_vars

C33_Witness ==
    \E i \in 1..MaxLoops :
        /\ loops[i].pc = "join"
        /\ Len(backup_nodes) = 2
        /\ Len(loops[i].tasks) = 1
        /\ Len(loops[i].tasks[1].chunk) = 1

\* ---- migration and failover of one VM (SpecEntryPoints)

\* The call has been made and has not returned.
InProgress(call) == call.pc \notin {"idle", "done"}

\* C34: a migration and a failover of the same VM are never in progress at
\* the same time, and each is in progress only for a VM that is being
\* replicated.
C34_MigrationExcludesFailover ==
    /\ ~(InProgress(mig) /\ InProgress(fo) /\ mig.vm = fo.vm)
    /\ InProgress(mig) => active_vms[mig.vm].present
    /\ InProgress(fo) => active_vms[fo.vm].present

\* ---- one host per VM (SpecLifecycle)

\* C35: once a VM has been resumed on a target or backup node, no step puts
\* it back into execution on the old primary, and it is resumed on at most
\* one node.
C35_NeverOnTwoHosts ==
    [][\A vm \in VMs :
          MovedAway(vm) =>
              /\ (Primary \notin vm_host[vm].running_on =>
                      Primary \notin vm_host'[vm].running_on)
              /\ Cardinality(vm_host[vm].running_on \cap Nodes) <= 1
    ]_vars

\* ---- arguments of the partitioning (SpecCycle)

\* C36: whenever a cycle is about to partition its batch, the page list is
\* non-empty and there is at least one backup node, so the chunk size is
\* defined and at least 1.
C36_PartitionArgumentsDefined ==
    \A i \in 1..MaxLoops :
        loops[i].pc = "dispatch" =>
            /\ loops[i].dirty_pages # <<>>
            /\ Len(backup_nodes) >= 1
            /\ ~chunk_pages_for_distribution(loops[i].dirty_pages,
                                             Len(backup_nodes)).panicked

\* ---- return of the emergency pause (SpecSaturation)

\* C37: emergency_pause_vm, once its pause directive has succeeded, returns
\* only by the step that issues the resume directive: neither the loop's
\* pause nor the controller's returns out of its wait.
C37_PauseReturnsOnlyAfterResume ==
    [][/\ \A i \in 1..MaxLoops :
             (loops[i].pc \in {"pause_poll", "pause_resume"} /\ loops'[i].pc = "sleep") =>
                 loops[i].pc = "pause_resume"
       /\ (epv.pc \in {"poll", "sleep", "resume"} /\ epv'.pc = "done") =>
             epv.pc = "resume"
    ]_vars

\* ---- drain during the emergency pause (SpecCycle)

\* A page transfer of the VM's loop is in flight or about to be dispatched:
\* the only source of acknowledgements that drain the VM's buffer.
DrainCanProceed(vm) ==
    \/ \E o \in orphans : o.vm = vm
    \/ \E j \in 1..MaxLoops :
          /\ loops[j].vm = vm
          /\ \/ loops[j].pc = "dispatch"
             \/ /\ loops[j].pc = "join"
                /\ \E k \in 1..Len(loops[j].tasks) : loops[j].tasks[k].status = "running"

\* C38: the wait inside the emergency pause does not prevent the drain it
\* waits for: while a loop waits for its paused VM's buffer to clear, a
\* transfer of that VM is in flight or can be dispatched, so that the level
\* can fall and the VM is eventually resumed.
C38_PauseWaitAllowsDrain ==
    \A i \in 1..MaxLoops :
        (loops[i].pc = "pause_poll" /\ still_full(loops[i].buffer_level)) =>
            DrainCanProceed(loops[i].vm)

\* ---- dirty pages of a cycle (SpecCycle)

\* C39: with emergency_pause_enabled no dirty page is lost: the pages a
\* cycle got from get_dirty_pages leave the cycle only by being handed to
\* the transfer tasks; a cycle that ends otherwise keeps them.
C39_NoDirtyPageLost ==
    [][config.emergency_pause_enabled =>
          \A i \in 1..MaxLoops :
              (loops[i].dirty_pages # <<>> /\ loops'[i].dirty_pages # loops[i].dirty_pages) =>
                  /\ loops'[i].pc = "join"
                  /\ Flatten([k \in 1..Len(loops'[i].tasks) |-> loops'[i].tasks[k].chunk]) =
                         loops[i].dirty_pages
    ]_vars

\* ---- choice of the node to promote (SpecFailover)

\* C40: the node a failover selects, promotes and resumes the VM on is a
\* member of the backup set and is not the failed node.
C40_NeverPromotesFailedNode ==
    /\ fo.best_backup # None =>
          /\ fo.best_backup \in Range(backup_nodes)
          /\ fo.best_backup # fo.failed_node
    /\ \A k \in 1..Len(fo.calls) :
          fo.calls[k].node # None => fo.calls[k].node # fo.failed_node

=============================================================================
